---- MODULE Spec2Model ----
(***************************************************************************)
(* Employee Data Platform (src/app.py): a Flask application with a        *)
(* session login, an SQLite record store (employees, employee_files) and  *)
(* an upload folder.  Strings are sequences of one-character strings so   *)
(* that strip(), rsplit(), secure_filename() and the numeric suffix of    *)
(* save_file are computed, not assumed.                                   *)
(***************************************************************************)
EXTENDS Integers, Sequences, FiniteSets, TLC

\* ------------------------------------------------------------------ bounds
MaxEmp == 2
MaxDisk == 2
MaxAtt == 2
MaxClock == 1

\* ----------------------------------------------------------- string helpers
Range(s) == {s[i] : i \in 1..Len(s)}

Max(S) == CHOOSE x \in S : \A y \in S : y <= x

\* a form field or query argument that the request does not carry
Absent == <<"<absent>">>

\* request.form.get(key, default) / request.args.get(key, default)
FormGet(v, default) == IF v = Absent THEN default ELSE v

\* the whitespace characters the inputs of the model use
Whitespace == {" "}

RECURSIVE LStrip(_, _)
LStrip(s, chars) ==
    IF s = <<>> THEN s
    ELSE IF Head(s) \in chars THEN LStrip(Tail(s), chars) ELSE s

RECURSIVE RStrip(_, _)
RStrip(s, chars) ==
    IF s = <<>> THEN s
    ELSE IF s[Len(s)] \in chars THEN RStrip(SubSeq(s, 1, Len(s) - 1), chars) ELSE s

\* str.strip(chars)
StripChars(s, chars) == LStrip(RStrip(s, chars), chars)

\* str.strip()
Strip(s) == StripChars(s, Whitespace)

UpperToLower == [c \in {"A", "D", "F", "P"} |->
                    CASE c = "A" -> "a" [] c = "D" -> "d" [] c = "F" -> "f" [] c = "P" -> "p"]

\* str.lower()
Lower(s) == [i \in 1..Len(s) |-> IF s[i] \in DOMAIN UpperToLower THEN UpperToLower[s[i]] ELSE s[i]]

\* index of the last occurrence of c in s, 0 when there is none (str.rfind + 1)
RFind(s, c) == IF c \in Range(s) THEN Max({i \in 1..Len(s) : s[i] = c}) ELSE 0

\* s.rsplit(".", 1)[1], for s that contains a "."
RSplitLast(s) == SubSeq(s, RFind(s, ".") + 1, Len(s))

Digit == [d \in 0..9 |-> CASE d = 0 -> "0" [] d = 1 -> "1" [] d = 2 -> "2" [] d = 3 -> "3"
                            [] d = 4 -> "4" [] d = 5 -> "5" [] d = 6 -> "6" [] d = 7 -> "7"
                            [] d = 8 -> "8" [] d = 9 -> "9"]

\* str(i) for a natural number i, as the f-strings of save_file format it
RECURSIVE Decimal(_)
Decimal(i) == IF i < 10 THEN <<Digit[i]>> ELSE Decimal(i \div 10) \o <<Digit[i % 10]>>

\* ------------------------------------------------------------- file helpers
ALLOWED_EXTENSIONS ==
    { <<"p","d","f">>, <<"d","o","c">>, <<"d","o","c","x">>, <<"p","n","g">>,
      <<"j","p","g">>, <<"j","p","e","g">>, <<"w","e","b","p">>,
      <<"x","l","s","x">>, <<"x","l","s">> }

allowed_file_any_dot(filename) == "." \in Range(filename)
allowed_file(filename) ==
    /\ "." \in Range(filename)
    /\ Lower(RSplitLast(filename)) \in ALLOWED_EXTENSIONS

\* characters kept by werkzeug's _filename_ascii_strip_re ([^A-Za-z0-9_.-] is removed)
SafeChars == {"a","b","c","d","e","f","m","p","v","x","A","D","F","P",
              "0","1","2","3","4","5","6","7","8","9","_",".","-"}

\* "_".join(s.split()) for s without leading or trailing whitespace
RECURSIVE JoinWords(_)
JoinWords(s) ==
    IF s = <<>> THEN <<>>
    ELSE IF Head(s) \in Whitespace
         THEN IF Len(s) > 1 /\ s[2] \in Whitespace
              THEN JoinWords(Tail(s))
              ELSE <<"_">> \o JoinWords(Tail(s))
         ELSE <<Head(s)>> \o JoinWords(Tail(s))

\* werkzeug.utils.secure_filename on a POSIX host
secure_filename(filename) ==
    LET nosep  == [i \in 1..Len(filename) |-> IF filename[i] = "/" THEN " " ELSE filename[i]]
        joined == JoinWords(Strip(nosep))
        ascii  == SelectSeq(joined, LAMBDA c : c \in SafeChars)
    IN  StripChars(ascii, {".", "_"})

\* pathlib.PurePath.suffix and .stem of a file name
PathSuffix(name) ==
    LET i == RFind(name, ".")
    IN  IF 1 < i /\ i < Len(name) THEN SubSeq(name, i, Len(name)) ELSE <<>>

PathStemWhole(name) == name
PathStem(name) ==
    LET i == RFind(name, ".")
    IN  IF 1 < i /\ i < Len(name) THEN SubSeq(name, 1, i - 1) ELSE name

\* upload_root / name, relative to UPLOAD_FOLDER
RelPathNameOnly(subdir, name) == name
RelPath(subdir, name) == subdir \o <<"/">> \o name

\* dest.exists()
ExistsAsDirectory(files, dirs, rel) == rel \in dirs
Exists(files, dirs, rel) == rel \in DOMAIN files \/ rel \in dirs

\* the loop of save_file that looks for a free destination
RECURSIVE UniqueDest(_, _, _, _, _, _, _)
UniqueDest(files, dirs, subdir, stem, suffix, dest, i) ==
    IF Exists(files, dirs, dest)
    THEN UniqueDest(files, dirs, subdir, stem, suffix,
                    RelPath(subdir, stem \o <<"_">> \o Decimal(i) \o suffix), i + 1)
    ELSE dest

NoFile == [filename |-> <<>>, content |-> "-"]

None == <<"<none>">>

\* save_file(file_storage, subdir) on the file store (files, dirs):
\* the new file store, the returned relative path and whether ValueError is raised
save_file_unchecked(files, dirs, fs, subdir) ==
    IF fs.filename = <<>>
    THEN [files |-> files, dirs |-> dirs, rel |-> None, err |-> FALSE]
    ELSE LET filename == secure_filename(fs.filename)
             ndirs    == dirs \cup {subdir}
             dest     == UniqueDest(files, ndirs, subdir, PathStem(filename), PathSuffix(filename),
                                    RelPath(subdir, filename), 1)
         IN  [files |-> (dest :> fs.content) @@ files, dirs |-> ndirs, rel |-> dest, err |-> FALSE]
save_file(files, dirs, fs, subdir) ==
    IF fs.filename = <<>>
    THEN [files |-> files, dirs |-> dirs, rel |-> None, err |-> FALSE]
    ELSE IF ~allowed_file(fs.filename)
    THEN [files |-> files, dirs |-> dirs, rel |-> None, err |-> TRUE]
    ELSE LET filename == secure_filename(fs.filename)
             ndirs    == dirs \cup {subdir}
             dest     == UniqueDest(files, ndirs, subdir, PathStem(filename), PathSuffix(filename),
                                    RelPath(subdir, filename), 1)
         IN  [files |-> (dest :> fs.content) @@ files, dirs |-> ndirs, rel |-> dest, err |-> FALSE]

\* ---------------------------------------------------------------- dates
IsDigits(s) == s # <<>> /\ \A i \in 1..Len(s) : \E d \in 0..9 : Digit[d] = s[i]

DigitVal(c) == CHOOSE d \in 0..9 : Digit[d] = c

RECURSIVE ToNum(_)
ToNum(s) == IF s = <<>> THEN 0 ELSE 10 * ToNum(SubSeq(s, 1, Len(s) - 1)) + DigitVal(s[Len(s)])

\* s.split(c)
RECURSIVE Split(_, _)
Split(s, c) ==
    IF c \notin Range(s) THEN <<s>>
    ELSE LET i == CHOOSE k \in 1..Len(s) : s[k] = c /\ \A j \in 1..(k - 1) : s[j] # c
         IN  <<SubSeq(s, 1, i - 1)>> \o Split(SubSeq(s, i + 1, Len(s)), c)

IsLeap(y) == (y % 4 = 0 /\ y % 100 # 0) \/ y % 400 = 0

DaysInMonthAlways31(y, m) == 31
DaysInMonth(y, m) ==
    IF m = 2 THEN (IF IsLeap(y) THEN 29 ELSE 28)
    ELSE IF m \in {4, 6, 9, 11} THEN 30 ELSE 31

NoDate == <<0, 0, 0>>

\* datetime.strptime(raw, "%Y-%m-%d").date(): the date, or NoDate when ValueError is raised
strptime(raw) ==
    LET parts == Split(raw, "-")
    IN  IF /\ Len(parts) = 3
           /\ Len(parts[1]) = 4 /\ IsDigits(parts[1])
           /\ Len(parts[2]) \in {1, 2} /\ IsDigits(parts[2])
           /\ Len(parts[3]) \in {1, 2} /\ IsDigits(parts[3])
        THEN LET y == ToNum(parts[1])
                 m == ToNum(parts[2])
                 d == ToNum(parts[3])
             IN  IF y >= 1 /\ m \in 1..12 /\ d >= 1 /\ d <= DaysInMonth(y, m)
                 THEN <<y, m, d>> ELSE NoDate
        ELSE NoDate

\* ------------------------------------------------------------------ state
VARIABLES
    session,         \* the Flask session: logged_in flag and the flashed categories
    login_next,      \* "next" argument of the login URL the client holds
    employees,       \* table employees: id -> row
    employee_files,  \* table employee_files: id -> row
    fs_files,        \* files under UPLOAD_FOLDER: relative path -> content
    fs_dirs,         \* subdirectories of UPLOAD_FOLDER
    now,             \* datetime.utcnow()
    resp,            \* the response to the last request
    requested,       \* history: path of the guarded request that was sent to login
    created_ids,     \* history: ids of every Employee ever created
    up_pc, up_dest, up_i, up_file,  \* two concurrent save_file calls (SpecRace)
    inflight         \* the create or update another thread is in the middle of (SpecConc)

vars == <<session, login_next, employees, employee_files, fs_files, fs_dirs, now, resp,
          requested, created_ids, up_pc, up_dest, up_i, up_file, inflight>>

raceVars == <<up_pc, up_dest, up_i, up_file, inflight>>
appVarsNoFs == <<session, login_next, employees, employee_files, now, resp, requested, created_ids,
                 inflight>>

\* --------------------------------------------------------- paths, responses
Path(route, emp_id, file_id, relpath) ==
    [route |-> route, emp_id |-> emp_id, file_id |-> file_id, relpath |-> relpath]

NoPath == Path("", 0, 0, <<>>)

\* url_for(...)
url_for(route) == Path(route, 0, 0, <<>>)

\* what a response shows of the stored data: Employee rows (in order), EmployeeFile
\* rows, the content of a served file; and the flashed categories a page displays
NoBody == [emps |-> <<>>, files |-> {}, content |-> "-"]

Response(code, location, next, body, flashed) ==
    [code |-> code, location |-> location, next |-> next, body |-> body, flashed |-> flashed]

\* redirect(location)
redirect(location) == Response(302, location, NoPath, NoBody, {})

\* render_template_string(...) in a session s: the page shows the flashed messages
Rendered(s, body) == Response(200, NoPath, NoPath, body, s.flashes)

\* abort(code)
abort(code) == Response(code, NoPath, NoPath, NoBody, {})

\* flash(message, category)
flash(s, category) == [s EXCEPT !.flashes = @ \cup {category}]

\* get_flashed_messages() in every template: the flashed messages leave the session
PopFlashes(s) == [s EXCEPT !.flashes = {}]

NoSession == [logged_in |-> FALSE, flashes |-> {}]

\* ------------------------------------------------------------------- auth
ADMIN_USER == <<"a","d","m","i","n">>
ADMIN_PASS == <<"a","d","m","i","n","1","2","3">>

\* session.clear()
session_clear_kept(s) == s
session_clear(s) == NoSession

\* the response of login_required to a request without session["logged_in"]
login_redirect(path) == Response(302, url_for("login"), path, NoBody, {})

dataVars == <<employees, employee_files, fs_files, fs_dirs, created_ids>>

\* login_required(view_func): View runs only in a logged-in session; otherwise the
\* request for path is redirected to login, which the client then holds
login_required_open(path, View) == View /\ UNCHANGED raceVars
login_required(path, View) ==
    /\ IF ~session.logged_in
       THEN /\ resp' = login_redirect(path)
            /\ login_next' = resp'.next
            /\ requested' = path
            /\ UNCHANGED <<session, dataVars, now>>
       ELSE View
    /\ UNCHANGED raceVars

\* the comparison of login(): both submitted values, stripped, against the configuration
credentials_ok_user_only(username, password) ==
    Strip(FormGet(username, <<>>)) = ADMIN_USER
credentials_ok(username, password) ==
    /\ Strip(FormGet(username, <<>>)) = ADMIN_USER
    /\ Strip(FormGet(password, <<>>)) = ADMIN_PASS

\* the target of the redirect after a successful login
login_target_dashboard(next) == url_for("dashboard")
login_target(next) == IF next # NoPath THEN next ELSE url_for("dashboard")

\* GET /login: the client follows the redirect it holds, or opens /login itself
LoginGet(follow) ==
    /\ resp' = Rendered(session, NoBody)
    /\ session' = PopFlashes(session)
    /\ login_next' = IF follow THEN login_next ELSE NoPath
    /\ requested' = IF follow THEN requested ELSE NoPath
    /\ UNCHANGED <<dataVars, now, raceVars>>

\* POST /login, submitted from the login page the client holds
LoginPost(username, password) ==
    /\ IF credentials_ok(username, password)
       THEN /\ session' = flash([session EXCEPT !.logged_in = TRUE], "success")
            /\ resp' = redirect(login_target(login_next))
            /\ login_next' = NoPath
            /\ requested' = NoPath
       ELSE /\ resp' = Rendered(flash(session, "danger"), NoBody)
            /\ session' = PopFlashes(session)
            /\ UNCHANGED <<login_next, requested>>
    /\ UNCHANGED <<dataVars, now, raceVars>>

\* GET /logout
Logout ==
    login_required(url_for("logout"),
        /\ session' = flash(session_clear(session), "info")
        /\ resp' = redirect(url_for("login"))
        /\ login_next' = NoPath
        /\ requested' = NoPath
        /\ UNCHANGED <<dataVars, now>>)

\* ----------------------------------------------------------- record store
\* the rowid SQLite gives a row inserted into a table whose rows have the ids in ids
\* (INTEGER PRIMARY KEY without AUTOINCREMENT: one more than the largest rowid in use)
NextIdByCount(ids) == Cardinality(ids) + 1
NextId(ids) == IF ids = {} THEN 1 ELSE Max(ids) + 1

\* f"emp_{emp.id}"
EmpDir(emp_id) == <<"e","m","p","_">> \o Decimal(emp_id)

CvDir == <<"c","v">>

\* request.form.get("attachment_label", ...) default
DefaultLabel == <<"m">>

\* the for-loop over request.files.getlist("attachments"): the file store after the
\* loop, the relative paths saved so far, and whether save_file raised ValueError
SaveAttachmentsNone(files, dirs, attachments, subdir, rels) ==
    [files |-> files, dirs |-> dirs, rels |-> rels, err |-> FALSE]
RECURSIVE SaveAttachments(_, _, _, _, _)
SaveAttachments(files, dirs, attachments, subdir, rels) ==
    IF attachments = <<>>
    THEN [files |-> files, dirs |-> dirs, rels |-> rels, err |-> FALSE]
    ELSE LET f == Head(attachments)
             r == save_file(files, dirs, f, subdir)
         IN  IF f.filename = <<>>
             THEN SaveAttachments(files, dirs, Tail(attachments), subdir, rels)
             ELSE IF r.err
             THEN [files |-> files, dirs |-> dirs, rels |-> rels, err |-> TRUE]
             ELSE SaveAttachments(r.files, r.dirs, Tail(attachments), subdir, Append(rels, r.rel))

\* db.session.add(EmployeeFile(...)) for each saved path, then the commit
AddFilesFirstOnly(rows, emp_id, rels, label) ==
    IF rels = <<>> THEN rows
    ELSE rows @@ (NextId(DOMAIN rows) :>
                    [employee_id |-> emp_id, filename |-> Head(rels), label |-> label])
AddFilesFromFirstId(rows, emp_id, rels, label) ==
    [f \in DOMAIN rows \cup 1..Len(rels) |->
        IF f <= Len(rels) THEN [employee_id |-> emp_id, filename |-> rels[f], label |-> label]
        ELSE rows[f]]
RECURSIVE AddFiles(_, _, _, _)
AddFiles(rows, emp_id, rels, label) ==
    IF rels = <<>> THEN rows
    ELSE AddFiles(rows @@ (NextId(DOMAIN rows) :>
                            [employee_id |-> emp_id, filename |-> Head(rels), label |-> label]),
                  emp_id, Tail(rels), label)

\* the rows of Employee.files
FilesOf(rows, emp_id) == {f \in DOMAIN rows : rows[f].employee_id = emp_id}

\* db.session.delete(emp) with cascade="all, delete-orphan" on Employee.files
CascadeKeepFiles(rows, emp_id) == rows
Cascade(rows, emp_id) == [f \in DOMAIN rows \ FilesOf(rows, emp_id) |-> rows[f]]

\* the columns copied from the form by employee_new and employee_edit (courses,
\* experience and certificates_text are copied in the same way as specialty)
FormFields(form) ==
    [name          |-> Strip(FormGet(form.name, <<>>)),
     specialty     |-> Strip(FormGet(form.specialty, <<>>)),
     qualification |-> Strip(FormGet(form.qualification, <<>>))]

\* "if hire_date_raw:" of employee_new and employee_edit
HasDate(form) == form.hire_date # Absent /\ form.hire_date # <<>>

\* the session after the hire_date block: a date that does not parse flashes a warning
AfterDate(s, form) ==
    IF HasDate(form) /\ strptime(form.hire_date) = NoDate THEN flash(s, "warning") ELSE s

\* the form's attachment label
LabelOf(form) == FormGet(form.attachment_label, DefaultLabel)

\* what a page shows of Employee emp_id
EmpBody(emp_id) == [emps |-> <<emp_id>>, files |-> FilesOf(employee_files, emp_id), content |-> "-"]

\* ---------------------------------------------------------------- routes
\* GET /employees/new
EmployeeNewGet ==
    login_required(url_for("employee_new"),
        /\ resp' = Rendered(session, NoBody)
        /\ session' = PopFlashes(session)
        /\ UNCHANGED <<login_next, requested, dataVars, now>>)

\* POST /employees/new
EmployeeNewPost(form) ==
    login_required(url_for("employee_new"),
        LET s1     == AfterDate(session, form)
            cv     == save_file(fs_files, fs_dirs, form.cv_file, CvDir)
            emp_id == NextId(DOMAIN employees)
            emp    == FormFields(form) @@
                      [hire_date   |-> IF HasDate(form) THEN strptime(form.hire_date) ELSE NoDate,
                       cv_filename |-> cv.rel,
                       created_at  |-> now,
                       updated_at  |-> now]
            atts   == SaveAttachments(cv.files, cv.dirs, form.attachments, EmpDir(emp_id), <<>>)
            rows   == AddFiles(employee_files, emp_id, atts.rels, LabelOf(form))
        IN  /\ UNCHANGED <<login_next, requested, now>>
            /\ IF cv.err
               THEN \* ValueError from the CV: nothing was added to the db session
                    /\ resp' = Rendered(flash(s1, "danger"), NoBody)
                    /\ session' = PopFlashes(s1)
                    /\ UNCHANGED dataVars
               ELSE \* the Employee is committed before the attachments are saved
                    /\ emp_id <= MaxEmp
                    /\ Cardinality(DOMAIN atts.files) <= MaxDisk
                    /\ employees' = (emp_id :> emp) @@ employees
                    /\ created_ids' = created_ids \cup {emp_id}
                    /\ fs_files' = atts.files
                    /\ fs_dirs' = atts.dirs
                    /\ IF atts.err
                       THEN \* ValueError in the loop: the pending EmployeeFile rows are dropped
                            /\ resp' = Rendered(flash(s1, "danger"), NoBody)
                            /\ session' = PopFlashes(s1)
                            /\ UNCHANGED employee_files
                       ELSE /\ employee_files' = rows
                            /\ session' = flash(s1, "success")
                            /\ resp' = redirect(url_for("dashboard")))

\* GET /employees/<emp_id>
EmployeeView(emp_id) ==
    login_required(Path("employee_view", emp_id, 0, <<>>),
        /\ IF emp_id \in DOMAIN employees
           THEN /\ resp' = Rendered(session, EmpBody(emp_id))
                /\ session' = PopFlashes(session)
           ELSE /\ resp' = abort(404)
                /\ UNCHANGED session
        /\ UNCHANGED <<login_next, requested, dataVars, now>>)

\* GET /employees/<emp_id>/edit
EmployeeEditGet(emp_id) ==
    login_required(Path("employee_edit", emp_id, 0, <<>>),
        /\ IF emp_id \in DOMAIN employees
           THEN /\ resp' = Rendered(session, EmpBody(emp_id))
                /\ session' = PopFlashes(session)
           ELSE /\ resp' = abort(404)
                /\ UNCHANGED session
        /\ UNCHANGED <<login_next, requested, dataVars, now>>)

\* POST /employees/<emp_id>/edit
EmployeeEditPost(emp_id, form) ==
    login_required(Path("employee_edit", emp_id, 0, <<>>),
        /\ UNCHANGED <<login_next, requested, now, created_ids>>
        /\ IF emp_id \notin DOMAIN employees
           THEN /\ resp' = abort(404)
                /\ UNCHANGED <<session, employees, employee_files, fs_files, fs_dirs>>
           ELSE LET old  == employees[emp_id]
                    s1   == AfterDate(session, form)
                    date == IF HasDate(form) /\ strptime(form.hire_date) # NoDate
                            THEN strptime(form.hire_date) ELSE old.hire_date
                    cv   == save_file(fs_files, fs_dirs, form.cv_file, CvDir)
                    cols == FormFields(form) @@
                            [hire_date   |-> date,
                             cv_filename |-> IF form.cv_file.filename # <<>> THEN cv.rel
                                             ELSE old.cv_filename,
                             created_at  |-> old.created_at,
                             updated_at  |-> old.updated_at]
                    \* onupdate=datetime.utcnow: stamped when the flush UPDATEs the row
                    emp  == IF cols = old THEN old ELSE [cols EXCEPT !.updated_at = now]
                    atts == SaveAttachments(cv.files, cv.dirs, form.attachments, EmpDir(emp_id), <<>>)
                    rows == AddFiles(employee_files, emp_id, atts.rels, LabelOf(form))
                IN  IF cv.err
                    THEN /\ resp' = Rendered(flash(s1, "danger"), EmpBody(emp_id))
                         /\ session' = PopFlashes(s1)
                         /\ UNCHANGED <<employees, employee_files, fs_files, fs_dirs>>
                    ELSE /\ Cardinality(DOMAIN atts.files) <= MaxDisk
                         /\ fs_files' = atts.files
                         /\ fs_dirs' = atts.dirs
                         /\ IF atts.err
                            THEN /\ resp' = Rendered(flash(s1, "danger"), EmpBody(emp_id))
                                 /\ session' = PopFlashes(s1)
                                 /\ UNCHANGED <<employees, employee_files>>
                            ELSE /\ employees' = [employees EXCEPT ![emp_id] = emp]
                                 /\ employee_files' = rows
                                 /\ session' = flash(s1, "success")
                                 /\ resp' = redirect(Path("employee_view", emp_id, 0, <<>>)))

\* POST /employees/<emp_id>/delete
EmployeeDelete(emp_id) ==
    login_required(Path("employee_delete", emp_id, 0, <<>>),
        /\ UNCHANGED <<login_next, requested, now, created_ids, fs_files, fs_dirs>>
        /\ IF emp_id \notin DOMAIN employees
           THEN /\ resp' = abort(404)
                /\ UNCHANGED <<session, employees, employee_files>>
           ELSE /\ employees' = [e \in DOMAIN employees \ {emp_id} |-> employees[e]]
                /\ employee_files' = Cascade(employee_files, emp_id)
                /\ session' = flash(session, "info")
                /\ resp' = redirect(url_for("dashboard")))

\* EmployeeFile.query.filter_by(id=file_id, employee_id=emp_id).first() finds a row
FileFoundAnyEmployee(rows, emp_id, file_id) == file_id \in DOMAIN rows
FileFound(rows, emp_id, file_id) ==
    file_id \in DOMAIN rows /\ rows[file_id].employee_id = emp_id

\* POST /employees/<emp_id>/file/<file_id>/delete
DeleteFile(emp_id, file_id) ==
    login_required(Path("delete_file", emp_id, file_id, <<>>),
        /\ UNCHANGED <<login_next, requested, now, created_ids, employees, fs_files, fs_dirs>>
        /\ IF FileFound(employee_files, emp_id, file_id)
           THEN /\ employee_files' = [f \in DOMAIN employee_files \ {file_id} |-> employee_files[f]]
                /\ session' = flash(session, "info")
                /\ resp' = redirect(Path("employee_edit", emp_id, 0, <<>>))
           ELSE /\ resp' = abort(404)
                /\ UNCHANGED <<session, employee_files>>)

\* ------------------------------------------------------------ dashboard
\* SQL LIKE: % matches any run of characters, _ any one character
RECURSIVE Like(_, _)
Like(pattern, str) ==
    IF pattern = <<>> THEN str = <<>>
    ELSE IF Head(pattern) = "%"
         THEN Like(Tail(pattern), str) \/ (str # <<>> /\ Like(pattern, Tail(str)))
         ELSE /\ str # <<>>
              /\ Head(pattern) = "_" \/ Head(pattern) = Head(str)
              /\ Like(Tail(pattern), Tail(str))

\* column.ilike(f"%{q}%")
ilike(column, q) == Like(Lower(<<"%">> \o q \o <<"%">>), Lower(column))

\* the rows the query of dashboard() selects
Matching(q, specialty) ==
    {e \in DOMAIN employees :
        /\ q # <<>> => ilike(employees[e].name, q) \/ ilike(employees[e].qualification, q)
        /\ specialty # <<>> => ilike(employees[e].specialty, specialty)}

\* ORDER BY created_at DESC: every order of the rows that is descending in created_at
\* (SQL fixes no order among rows with equal created_at)
OrderedByCreatedDesc(ids) ==
    {o \in [1..Cardinality(ids) -> ids] :
        /\ \A i, j \in DOMAIN o : i # j => o[i] # o[j]
        /\ \A i, j \in DOMAIN o : i < j => employees[o[i]].created_at >= employees[o[j]].created_at}

\* GET /
Dashboard(q_arg, specialty_arg) ==
    login_required(url_for("dashboard"),
        LET q         == Strip(FormGet(q_arg, <<>>))
            specialty == Strip(FormGet(specialty_arg, <<>>))
            ids       == Matching(q, specialty)
        IN  /\ \E o \in OrderedByCreatedDesc(ids) :
                  resp' = Rendered(session,
                              [emps |-> o,
                               files |-> {f \in DOMAIN employee_files : employee_files[f].employee_id \in ids},
                               content |-> "-"])
            /\ session' = PopFlashes(session)
            /\ UNCHANGED <<login_next, requested, dataVars, now>>)

\* ------------------------------------------------------------ serve_file
\* the directory UPLOAD_FOLDER and what lies outside it, as absolute path segments
UploadsAbs == << <<"s","r","v">>, <<"u","p">> >>
OutsideDirs == { <<>>, << <<"s","r","v">> >> }
OutsideFiles == { << <<"s","r","v">>, <<"k","e","y">> >> }

IsPrefix(p, s) == Len(p) <= Len(s) /\ SubSeq(s, 1, Len(p)) = p

\* the path of abs relative to UPLOAD_FOLDER, in the form of the keys of fs_files
RECURSIVE JoinSlash(_)
JoinSlash(segs) ==
    IF segs = <<>> THEN <<>>
    ELSE IF Len(segs) = 1 THEN segs[1]
    ELSE segs[1] \o <<"/">> \o JoinSlash(Tail(segs))

RelOf(abs) == JoinSlash(SubSeq(abs, Len(UploadsAbs) + 1, Len(abs)))

IsDir(abs) ==
    \/ abs \in OutsideDirs
    \/ abs = UploadsAbs
    \/ IsPrefix(UploadsAbs, abs) /\ Len(abs) = Len(UploadsAbs) + 1 /\ RelOf(abs) \in fs_dirs

IsFile(abs) ==
    \/ abs \in OutsideFiles
    \/ IsPrefix(UploadsAbs, abs) /\ Len(abs) > Len(UploadsAbs) /\ RelOf(abs) \in DOMAIN fs_files

Dot == <<".">>
DotDot == <<".", ".">>

\* Path.resolve() (no symlinks): "." and "" are dropped, ".." drops the last segment
RECURSIVE Resolve(_, _)
Resolve(segs, abs) ==
    IF segs = <<>> THEN abs
    ELSE LET g == Head(segs)
         IN  IF g = <<>> \/ g = Dot THEN Resolve(Tail(segs), abs)
             ELSE IF g = DotDot
             THEN Resolve(Tail(segs), IF abs = <<>> THEN abs ELSE SubSeq(abs, 1, Len(abs) - 1))
             ELSE Resolve(Tail(segs), Append(abs, g))

\* Path.exists(): the walk of the operating system from directory abs
RECURSIVE OsExists(_, _)
OsExists(segs, abs) ==
    IF segs = <<>> THEN IsDir(abs) \/ IsFile(abs)
    ELSE LET g == Head(segs)
         IN  /\ IsDir(abs)
             /\ IF g = <<>> \/ g = Dot THEN OsExists(Tail(segs), abs)
                ELSE IF g = DotDot
                THEN OsExists(Tail(segs), IF abs = <<>> THEN abs ELSE SubSeq(abs, 1, Len(abs) - 1))
                ELSE OsExists(Tail(segs), Append(abs, g))

\* posixpath.normpath of a relative path: the number of leading ".." and the rest
RECURSIVE NormPath(_, _, _)
NormPath(segs, up, stack) ==
    IF segs = <<>> THEN [up |-> up, stack |-> stack]
    ELSE LET g == Head(segs)
         IN  IF g = <<>> \/ g = Dot THEN NormPath(Tail(segs), up, stack)
             ELSE IF g = DotDot
             THEN IF stack = <<>> THEN NormPath(Tail(segs), up + 1, stack)
                  ELSE NormPath(Tail(segs), up, SubSeq(stack, 1, Len(stack) - 1))
             ELSE NormPath(Tail(segs), up, Append(stack, g))

\* send_from_directory(uploads, relpath): safe_join, then the file must be a regular file
SendFromDirectory(relpath) ==
    LET n == NormPath(Split(relpath, "/"), 0, <<>>)
    IN  IF n.up = 0 /\ JoinSlash(n.stack) \in DOMAIN fs_files
        THEN Response(200, NoPath, NoPath,
                      [emps |-> <<>>, files |-> {}, content |-> fs_files[JoinSlash(n.stack)]], {})
        ELSE abort(404)

\* the body of serve_file: containment in the upload folder, existence, then the file
serve_response_existence_first(relpath) ==
    LET segs   == Split(relpath, "/")
        target == Resolve(segs, UploadsAbs)
    IN  IF ~OsExists(segs, UploadsAbs) THEN abort(404)
        ELSE IF ~IsPrefix(UploadsAbs, target) THEN abort(403)
        ELSE SendFromDirectory(relpath)
serve_response(relpath) ==
    LET segs   == Split(relpath, "/")
        target == Resolve(segs, UploadsAbs)
    IN  IF ~IsPrefix(UploadsAbs, target) THEN abort(403)
        ELSE IF ~OsExists(segs, UploadsAbs) THEN abort(404)
        ELSE SendFromDirectory(relpath)

\* GET /files/<path:relpath>
ServeFile(relpath) ==
    login_required(Path("serve_file", 0, 0, relpath),
        /\ resp' = serve_response(relpath)
        /\ UNCHANGED <<session, login_next, requested, dataVars, now>>)

\* ------------------------------- employee_new and employee_edit, step by step
\* the uploads of the batch that carry a filename
Uploaded(attachments) == {i \in DOMAIN attachments : attachments[i].filename # <<>>}

upVars == <<up_pc, up_dest, up_i, up_file>>

\* no request is in the middle of its handler
NoRequest == [kind |-> "none", pc |-> "-", emp_id |-> 0, form |-> <<>>, old |-> <<>>]

\* employee_new up to its first commit: the Employee row is stored
CreateCommitEmployee(form) ==
    /\ session.logged_in
    /\ inflight.kind = "none"
    /\ LET s1     == AfterDate(session, form)
           cv     == save_file(fs_files, fs_dirs, form.cv_file, CvDir)
           emp_id == NextId(DOMAIN employees)
           emp    == FormFields(form) @@
                     [hire_date   |-> IF HasDate(form) THEN strptime(form.hire_date) ELSE NoDate,
                      cv_filename |-> cv.rel,
                      created_at  |-> now,
                      updated_at  |-> now]
       IN  IF cv.err
           THEN /\ resp' = Rendered(flash(s1, "danger"), NoBody)
                /\ session' = PopFlashes(s1)
                /\ UNCHANGED <<dataVars, inflight>>
           ELSE /\ emp_id <= MaxEmp
                /\ Cardinality(DOMAIN cv.files) <= MaxDisk
                /\ employees' = (emp_id :> emp) @@ employees
                /\ created_ids' = created_ids \cup {emp_id}
                /\ fs_files' = cv.files
                /\ fs_dirs' = cv.dirs
                /\ session' = s1
                /\ inflight' = [kind |-> "create", pc |-> "committed", emp_id |-> emp_id,
                                form |-> form, old |-> <<>>]
                /\ UNCHANGED <<employee_files, resp>>
    /\ UNCHANGED <<login_next, requested, now, upVars>>

\* the first read of emp.id in the loop over the attachments: the commit has expired
\* the object, so the row is loaded again, and ObjectDeletedError is raised when it is gone
CreateLoadId ==
    /\ inflight.kind = "create" /\ inflight.pc = "committed"
    /\ Uploaded(inflight.form.attachments) # {}
    /\ IF inflight.emp_id \in DOMAIN employees
       THEN /\ inflight' = [inflight EXCEPT !.pc = "loaded"]
            /\ UNCHANGED <<session, resp>>
       ELSE /\ resp' = Rendered(flash(session, "danger"), NoBody)
            /\ session' = PopFlashes(session)
            /\ inflight' = NoRequest
    /\ UNCHANGED <<login_next, requested, now, dataVars, upVars>>

\* the loop over the attachments and the second commit of employee_new
CreateCommitFiles ==
    /\ inflight.kind = "create"
    /\ inflight.pc = "loaded" \/ Uploaded(inflight.form.attachments) = {}
    /\ LET emp_id == inflight.emp_id
           form   == inflight.form
           atts   == SaveAttachments(fs_files, fs_dirs, form.attachments, EmpDir(emp_id), <<>>)
           rows   == AddFiles(employee_files, emp_id, atts.rels, LabelOf(form))
       IN  /\ Cardinality(DOMAIN atts.files) <= MaxDisk
           /\ fs_files' = atts.files
           /\ fs_dirs' = atts.dirs
           /\ IF atts.err
              THEN /\ resp' = Rendered(flash(session, "danger"), NoBody)
                   /\ session' = PopFlashes(session)
                   /\ UNCHANGED employee_files
              ELSE /\ employee_files' = rows
                   /\ session' = flash(session, "success")
                   /\ resp' = redirect(url_for("dashboard"))
    /\ inflight' = NoRequest
    /\ UNCHANGED <<login_next, requested, now, employees, created_ids, upVars>>

\* employee_edit up to Employee.query.get_or_404(emp_id)
EditLoad(emp_id, form) ==
    /\ session.logged_in
    /\ inflight.kind = "none"
    /\ IF emp_id \in DOMAIN employees
       THEN /\ inflight' = [kind |-> "edit", pc |-> "loaded", emp_id |-> emp_id,
                            form |-> form, old |-> employees[emp_id]]
            /\ UNCHANGED resp
       ELSE /\ resp' = abort(404)
            /\ UNCHANGED inflight
    /\ UNCHANGED <<session, login_next, requested, now, dataVars, upVars>>

\* the rest of employee_edit, on the object that was loaded: the uploads and the commit.
\* The flush UPDATEs the Employee row when a column has changed, and raises
\* StaleDataError when that row is gone; it INSERTs the EmployeeFile rows
EditCommit ==
    /\ inflight.kind = "edit"
    /\ LET emp_id == inflight.emp_id
           form   == inflight.form
           old    == inflight.old
           s1     == AfterDate(session, form)
           date   == IF HasDate(form) /\ strptime(form.hire_date) # NoDate
                     THEN strptime(form.hire_date) ELSE old.hire_date
           cv     == save_file(fs_files, fs_dirs, form.cv_file, CvDir)
           cols   == FormFields(form) @@
                     [hire_date   |-> date,
                      cv_filename |-> IF form.cv_file.filename # <<>> THEN cv.rel
                                      ELSE old.cv_filename,
                      created_at  |-> old.created_at,
                      updated_at  |-> old.updated_at]
           atts   == SaveAttachments(cv.files, cv.dirs, form.attachments, EmpDir(emp_id), <<>>)
           rows   == AddFiles(employee_files, emp_id, atts.rels, LabelOf(form))
       IN  IF cv.err
           THEN /\ resp' = Rendered(flash(s1, "danger"), EmpBody(emp_id))
                /\ session' = PopFlashes(s1)
                /\ UNCHANGED <<employees, employee_files, fs_files, fs_dirs>>
           ELSE /\ Cardinality(DOMAIN atts.files) <= MaxDisk
                /\ fs_files' = atts.files
                /\ fs_dirs' = atts.dirs
                /\ IF atts.err \/ (cols # old /\ emp_id \notin DOMAIN employees)
                   THEN /\ resp' = Rendered(flash(s1, "danger"), EmpBody(emp_id))
                        /\ session' = PopFlashes(s1)
                        /\ UNCHANGED <<employees, employee_files>>
                   ELSE /\ employees' = IF cols = old THEN employees
                                        ELSE [employees EXCEPT
                                                ![emp_id] = [cols EXCEPT !.updated_at = now]]
                        /\ employee_files' = rows
                        /\ session' = flash(s1, "success")
                        /\ resp' = redirect(Path("employee_view", emp_id, 0, <<>>))
    /\ inflight' = NoRequest
    /\ UNCHANGED <<login_next, requested, now, created_ids, upVars>>

\* ------------------------------------------------- save_file, step by step
Calls == {1, 2}

\* the first lines of save_file, up to the first destination
UpStart(p, file, subdir) ==
    /\ up_pc[p] = "idle"
    /\ up_file' = [up_file EXCEPT ![p] = file @@ [subdir |-> subdir]]
    /\ up_i' = [up_i EXCEPT ![p] = 1]
    /\ IF file.filename = <<>>
       THEN /\ up_pc' = [up_pc EXCEPT ![p] = "done"]
            /\ UNCHANGED <<up_dest, fs_dirs>>
       ELSE IF ~allowed_file(file.filename)
       THEN /\ up_pc' = [up_pc EXCEPT ![p] = "raised"]
            /\ UNCHANGED <<up_dest, fs_dirs>>
       ELSE /\ up_pc' = [up_pc EXCEPT ![p] = "check"]
            /\ up_dest' = [up_dest EXCEPT ![p] = RelPath(subdir, secure_filename(file.filename))]
            /\ fs_dirs' = fs_dirs \cup {subdir}
    /\ UNCHANGED <<fs_files, appVarsNoFs>>

\* one evaluation of "while dest.exists()" and, when it holds, the loop body
UpCheck(p) ==
    /\ up_pc[p] = "check"
    /\ IF Exists(fs_files, fs_dirs, up_dest[p])
       THEN LET filename == secure_filename(up_file[p].filename)
            IN  /\ up_dest' = [up_dest EXCEPT ![p] =
                        RelPath(up_file[p].subdir,
                                PathStem(filename) \o <<"_">> \o Decimal(up_i[p]) \o PathSuffix(filename))]
                /\ up_i' = [up_i EXCEPT ![p] = @ + 1]
                /\ UNCHANGED up_pc
       ELSE /\ up_pc' = [up_pc EXCEPT ![p] = "save"]
            /\ UNCHANGED <<up_dest, up_i>>
    /\ UNCHANGED <<up_file, fs_files, fs_dirs, appVarsNoFs>>

\* file_storage.save(dest) and the return
UpSave(p) ==
    /\ up_pc[p] = "save"
    /\ fs_files' = (up_dest[p] :> up_file[p].content) @@ fs_files
    /\ up_pc' = [up_pc EXCEPT ![p] = "done"]
    /\ UNCHANGED <<up_dest, up_i, up_file, fs_dirs, appVarsNoFs>>

\* ------------------------------------------------------------ the inputs
Credentials ==
    { <<ADMIN_USER, ADMIN_PASS>>,
      <<<<" ">> \o ADMIN_USER \o <<" ">>, ADMIN_PASS \o <<" ">>>>,
      <<ADMIN_USER, <<"a","d","m","i","n">>>>,
      <<<<"a","d","m","i","m">>, ADMIN_PASS>>,
      <<ADMIN_USER, Absent>>,
      <<Absent, Absent>> }

PdfA == <<"a",".","p","d","f">>
ExeA == <<"a",".","e","x","e">>

Upload(filename, content) == [filename |-> filename, content |-> content]

AttUploads == {Upload(PdfA, "x"), Upload(ExeA, "x")}

SeqsUpTo(S, n) == UNION {[1..k -> S] : k \in 0..n}

Form(names, dates, cvs, atts) ==
    [name : names, specialty : {Absent}, qualification : {Absent}, hire_date : dates,
     cv_file : cvs, attachments : atts, attachment_label : {Absent}]

\* the forms submitted to employee_new and to employee_edit
Forms ==
    Form({Absent, <<>>, <<" ">>}, {Absent}, {NoFile}, SeqsUpTo({Upload(PdfA, "x")}, 1))
    \cup Form({<<"A","d">>}, {Absent}, {NoFile}, SeqsUpTo(AttUploads, MaxAtt))

PlainForms ==
    Form({Absent, <<"A","d">>}, {Absent}, {NoFile}, {<<>>})

EditForms ==
    Form({Absent, <<"A","d">>}, {Absent}, {NoFile}, SeqsUpTo(AttUploads, 1))

Queries == {Absent}

RelPaths == {EmpDir(1) \o <<"/">> \o PdfA, <<".", ".", "/">> \o <<"k","e","y">>}

EmpIds == 1..MaxEmp
\* every EmployeeFile row was added for a file saved to the folder
FileIds == 1..MaxDisk

\* --------------------------------------------------------- specification
NoCall == [filename |-> <<>>, content |-> "-", subdir |-> <<>>]

\* the columns of a row of employees
EmployeeRow(name, cv_filename) ==
    [name |-> name, specialty |-> <<>>, qualification |-> <<>>, hire_date |-> NoDate,
     cv_filename |-> cv_filename, created_at |-> 0, updated_at |-> 0]

\* the store the application starts on: employees.db and the upload folder are kept
\* from earlier runs (db.create_all() and mkdir(exist_ok=True) leave them as they are)
EmptyStore ==
    [employees |-> <<>>, employee_files |-> <<>>, fs_files |-> <<>>, fs_dirs |-> {}]

StoreWithAttachment ==
    [employees      |-> (1 :> EmployeeRow(<<"A","d">>, None)),
     employee_files |-> (1 :> [employee_id |-> 1, filename |-> RelPath(EmpDir(1), PdfA),
                               label |-> DefaultLabel]),
     fs_files       |-> (RelPath(EmpDir(1), PdfA) :> "x"),
     fs_dirs        |-> {EmpDir(1)}]

InitialStores == {EmptyStore, StoreWithAttachment}

\* a first request finds an anonymous session
Init ==
    /\ session = NoSession
    /\ login_next = NoPath
    /\ \E store \in InitialStores :
          /\ employees = store.employees
          /\ employee_files = store.employee_files
          /\ fs_files = store.fs_files
          /\ fs_dirs = store.fs_dirs
          /\ created_ids = DOMAIN store.employees
    /\ now = 0
    /\ resp = abort(0)
    /\ requested = NoPath
    /\ up_pc = [p \in Calls |-> "idle"]
    /\ up_dest = [p \in Calls |-> None]
    /\ up_i = [p \in Calls |-> 1]
    /\ up_file = [p \in Calls |-> NoCall]
    /\ inflight = NoRequest

\* the whole application, with forms that upload nothing
Next ==
    \/ \E follow \in BOOLEAN : LoginGet(follow)
    \/ \E c \in Credentials : LoginPost(c[1], c[2])
    \/ Logout
    \/ \E q \in Queries, sp \in Queries : Dashboard(q, sp)
    \/ EmployeeNewGet
    \/ \E form \in PlainForms : EmployeeNewPost(form)
    \/ \E e \in EmpIds : EmployeeView(e)
    \/ \E e \in EmpIds : EmployeeEditGet(e)
    \/ \E e \in EmpIds, form \in PlainForms : EmployeeEditPost(e, form)
    \/ \E e \in EmpIds : EmployeeDelete(e)
    \/ \E r \in RelPaths : ServeFile(r)
    \/ \E e \in EmpIds, f \in FileIds : DeleteFile(e, f)

Spec == Init /\ [][Next]_vars

\* the session after the login with the configured credentials, on an empty store
InitLoggedIn ==
    /\ session = flash([NoSession EXCEPT !.logged_in = TRUE], "success")
    /\ login_next = NoPath
    /\ employees = <<>>
    /\ employee_files = <<>>
    /\ fs_files = <<>>
    /\ fs_dirs = {}
    /\ created_ids = {}
    /\ now = 0
    /\ resp = redirect(url_for("dashboard"))
    /\ requested = NoPath
    /\ up_pc = [p \in Calls |-> "idle"]
    /\ up_dest = [p \in Calls |-> None]
    /\ up_i = [p \in Calls |-> 1]
    /\ up_file = [p \in Calls |-> NoCall]
    /\ inflight = NoRequest

\* the Employee Service operations of a logged-in session: create, update, delete,
\* delete_attachment, with forms that upload attachments
NextStore ==
    \/ \E form \in Forms : EmployeeNewPost(form)
    \/ \E e \in EmpIds, form \in EditForms : EmployeeEditPost(e, form)
    \/ \E e \in EmpIds : EmployeeDelete(e)
    \/ \E e \in EmpIds, f \in FileIds : DeleteFile(e, f)

SpecStore == InitLoggedIn /\ [][NextStore]_vars

\* ------------------------------------- save_file calls on a shared folder
PdfA1 == <<"a","_","1",".","p","d","f">>

PdfUpper == <<"A",".","P","D","F">>
NoExt == <<"a">>
EmptyExt == <<"a",".">>

CallFiles ==
    {NoFile, Upload(PdfA, "x"), Upload(PdfA, "y"), Upload(PdfA1, "x"), Upload(ExeA, "x"),
     Upload(PdfUpper, "x"), Upload(NoExt, "x"), Upload(EmptyExt, "x")}
CallDirs == {CvDir, EmpDir(1)}

\* upload folders left by earlier requests
InitialDisks ==
    { <<>>,
      (RelPath(CvDir, PdfA) :> "z"),
      (RelPath(CvDir, PdfA) :> "z") @@ (RelPath(CvDir, PdfA1) :> "z") }

InitStore ==
    /\ session = NoSession
    /\ login_next = NoPath
    /\ employees = <<>>
    /\ employee_files = <<>>
    /\ fs_files \in InitialDisks
    /\ fs_dirs = IF fs_files = <<>> THEN {} ELSE {CvDir}
    /\ now = 0
    /\ resp = abort(0)
    /\ requested = NoPath
    /\ created_ids = {}
    /\ up_pc = [p \in Calls |-> "idle"]
    /\ up_dest = [p \in Calls |-> None]
    /\ up_i = [p \in Calls |-> 1]
    /\ up_file = [p \in Calls |-> NoCall]
    /\ inflight = NoRequest

\* a call that has started and has not returned
Running(p) == up_pc[p] \in {"check", "save"}

\* requests handled one after the other: a call steps only while no other call runs
SeqStart == \E p \in Calls, file \in CallFiles, subdir \in CallDirs :
                (\A o \in Calls \ {p} : ~Running(o)) /\ UpStart(p, file, subdir)
SeqCheck == \E p \in Calls : (\A o \in Calls \ {p} : ~Running(o)) /\ UpCheck(p)
SeqSave == \E p \in Calls : (\A o \in Calls \ {p} : ~Running(o)) /\ UpSave(p)

NextSeq == SeqStart \/ SeqCheck \/ SeqSave

SpecSeq == InitStore /\ [][NextSeq]_vars

\* requests handled by concurrent threads: the calls interleave step by step
RaceStart == \E p \in Calls, file \in CallFiles, subdir \in CallDirs : UpStart(p, file, subdir)
RaceCheck == \E p \in Calls : UpCheck(p)
RaceSave == \E p \in Calls : UpSave(p)

NextRace == RaceStart \/ RaceCheck \/ RaceSave

SpecRace == InitStore /\ [][NextRace]_vars

\* ------------------------------------------------ serve_file on a live store
\* the paths asked of /files/<path:relpath>: inside the upload folder (a file, a
\* directory, through ".." segments, through a directory that does not exist, out of
\* the folder and back) and outside it (a file that exists, a path where nothing is)
ServePaths ==
    { JoinSlash(<<EmpDir(1), PdfA>>),
      JoinSlash(<<EmpDir(1)>>),
      JoinSlash(<<EmpDir(1), DotDot, EmpDir(1), PdfA>>),
      JoinSlash(<<EmpDir(2), DotDot, EmpDir(1), PdfA>>),
      JoinSlash(<<DotDot, <<"u","p">>, EmpDir(1), PdfA>>),
      JoinSlash(<<DotDot, <<"k","e","y">>>>),
      JoinSlash(<<DotDot, <<"n","o">>>>),
      JoinSlash(<<DotDot, DotDot>>) }

ServeForms ==
    Form({<<"A","d">>}, {Absent}, {NoFile}, SeqsUpTo({Upload(PdfA, "x"), Upload(PdfA, "y")}, 1))

\* a logged-in session that creates and deletes Employees and fetches files
NextServe ==
    \/ \E form \in ServeForms : EmployeeNewPost(form)
    \/ \E e \in EmpIds : EmployeeDelete(e)
    \/ \E r \in ServePaths : ServeFile(r)

SpecServe == InitLoggedIn /\ [][NextServe]_vars

\* ------------------------------------- create and update with a CV upload
\* forms with and without a CV (allowed, disallowed), whose attachments are none, allowed,
\* disallowed, an allowed one before a disallowed one, and two allowed ones
UnitUpload(cv, attachments) ==
    [name |-> <<"A","d">>, specialty |-> Absent, qualification |-> Absent, hire_date |-> Absent,
     cv_file |-> cv, attachments |-> attachments, attachment_label |-> Absent]

UnitForms ==
    { UnitUpload(NoFile, <<>>),
      UnitUpload(Upload(PdfA, "x"), <<>>),
      UnitUpload(Upload(ExeA, "x"), <<Upload(PdfA, "x")>>),
      UnitUpload(Upload(PdfA, "x"), <<Upload(PdfA, "x"), Upload(ExeA, "x")>>),
      UnitUpload(NoFile, <<Upload(ExeA, "x")>>),
      UnitUpload(NoFile, <<Upload(PdfA, "x"), Upload(PdfA, "y")>>) }

\* the Employee Service operations of a logged-in session, with CV uploads
NextUnit ==
    \/ \E form \in UnitForms : EmployeeNewPost(form)
    \/ \E e \in EmpIds, form \in UnitForms : EmployeeEditPost(e, form)
    \/ \E e \in EmpIds : EmployeeDelete(e)
    \/ \E e \in EmpIds, f \in FileIds : DeleteFile(e, f)

SpecUnit == InitLoggedIn /\ [][NextUnit]_vars

\* ------------------------------------------- create and update with a date
LeapDay == <<"2","0","2","4","-","0","2","-","2","9">>
ShortDay == <<"2","0","2","3","-","1","-","5">>
NoSuchDay == <<"2","0","2","3","-","0","2","-","2","9">>
BlankDay == <<" ">>

\* the strings submitted as hire_date that are no calendar date written YYYY-MM-DD
BadDates == {NoSuchDay, BlankDay}

DateForms ==
    Form({<<"A","d">>}, {Absent, <<>>, LeapDay, ShortDay} \cup BadDates, {NoFile}, {<<>>})

\* a logged-in session that creates, updates and deletes Employees with hire dates
NextDates ==
    \/ \E form \in DateForms : EmployeeNewPost(form)
    \/ \E e \in EmpIds, form \in DateForms : EmployeeEditPost(e, form)
    \/ \E e \in EmpIds : EmployeeDelete(e)

SpecDates == InitLoggedIn /\ [][NextDates]_vars

\* ------------------------------------------------------------ the search
\* datetime.utcnow() reads a later time
Tick ==
    /\ now < MaxClock
    /\ now' = now + 1
    /\ UNCHANGED <<session, login_next, resp, requested, dataVars, raceVars>>

SearchForm(name, qualification, specialty) ==
    [name |-> name, specialty |-> specialty, qualification |-> qualification,
     hire_date |-> Absent, cv_file |-> NoFile, attachments |-> <<>>, attachment_label |-> Absent]

SearchForms ==
    { SearchForm(<<"A","d">>, Absent, <<"P">>),
      SearchForm(<<"b">>, <<"d","a">>, <<"p">>),
      SearchForm(<<"b","_">>, Absent, Absent) }

\* the arguments q and specialty of a search
QueryPairs ==
    { <<Absent, Absent>>,
      <<<<"a">>, Absent>>,
      <<<<" ","D"," ">>, Absent>>,
      <<<<"_">>, Absent>>,
      <<<<"%">>, Absent>>,
      <<Absent, <<"p">>>>,
      <<<<"A">>, <<"P">>>> }

\* a logged-in session that creates Employees as time passes and searches them
NextSearch ==
    \/ Tick
    \/ \E form \in SearchForms : EmployeeNewPost(form)
    \/ \E qp \in QueryPairs : Dashboard(qp[1], qp[2])

SpecSearch == InitLoggedIn /\ [][NextSearch]_vars

\* -------------------------------------- attachments added one at a time
\* forms that upload nothing, one CV, or one allowed attachment
FileForms ==
    { UnitUpload(NoFile, <<>>),
      UnitUpload(Upload(PdfA, "x"), <<>>),
      UnitUpload(NoFile, <<Upload(PdfA, "x")>>) }

\* the Employee Service operations of a logged-in session, with uploads that all pass
NextFiles ==
    \/ \E form \in FileForms : EmployeeNewPost(form)
    \/ \E e \in EmpIds, form \in FileForms : EmployeeEditPost(e, form)
    \/ \E e \in EmpIds : EmployeeDelete(e)
    \/ \E e \in EmpIds, f \in FileIds : DeleteFile(e, f)

SpecFiles == InitLoggedIn /\ [][NextFiles]_vars

\* --------------------------------------------- updates as time passes
\* forms that repeat the stored name, change it, replace the CV, or add an attachment
StampForms ==
    { UnitUpload(NoFile, <<>>),
      [UnitUpload(NoFile, <<>>) EXCEPT !.name = <<"b">>],
      UnitUpload(Upload(PdfA, "x"), <<>>),
      UnitUpload(NoFile, <<Upload(PdfA, "x")>>) }

\* a logged-in session that creates and updates Employees and deletes attachments
\* while the clock advances
NextStamp ==
    \/ Tick
    \/ \E form \in StampForms : EmployeeNewPost(form)
    \/ \E e \in EmpIds, form \in StampForms : EmployeeEditPost(e, form)
    \/ \E e \in EmpIds, f \in FileIds : DeleteFile(e, f)

SpecStamp == InitLoggedIn /\ [][NextStamp]_vars

\* ------------------------------------ a delete while a request is in flight
\* a logged-in client whose create or update is interleaved with deletes of Employees
NextConc ==
    \/ \E form \in StampForms : CreateCommitEmployee(form)
    \/ CreateLoadId
    \/ CreateCommitFiles
    \/ \E e \in EmpIds, form \in StampForms : EditLoad(e, form)
    \/ EditCommit
    \/ \E e \in EmpIds : EmployeeDelete(e)

SpecConc == InitLoggedIn /\ [][NextConc]_vars

\* ------------------------------------------------------------ properties
storeVars == <<employees, employee_files, fs_files, fs_dirs>>

\* a request to /login
LoginStep ==
    \/ \E follow \in BOOLEAN : LoginGet(follow)
    \/ \E c \in Credentials : LoginPost(c[1], c[2])

\* the response is the redirect to login and shows nothing of the store
RedirectedToLogin(r) ==
    r.code = 302 /\ r.location = url_for("login") /\ r.body = NoBody

\* C1: while the session is anonymous no request changes an Employee row, an
\* EmployeeFile row or a stored file, and every request other than one to /login is
\* answered with the redirect to login, which shows no stored data.
C1_AnonymousIsRedirected ==
    [][~session.logged_in =>
          /\ UNCHANGED storeVars
          /\ LoginStep \/ (RedirectedToLogin(resp') /\ ~session'.logged_in)]_vars

\* an anonymous delete of a stored Employee that owns files was redirected
C1_Witness ==
    /\ ~session.logged_in
    /\ RedirectedToLogin(resp)
    /\ resp.next.route = "employee_delete"
    /\ resp.next.emp_id \in DOMAIN employees
    /\ FilesOf(employee_files, resp.next.emp_id) # {}
    /\ fs_files # <<>>

\* C2 as stated: a login submission logs an anonymous session in if and only if the
\* submitted username and password are character for character the configured pair.
C2_ExactMatchOnly ==
    [][\A c \in Credentials :
          (~session.logged_in /\ LoginPost(c[1], c[2])) =>
              (session'.logged_in <=> (c[1] = ADMIN_USER /\ c[2] = ADMIN_PASS))]_vars

\* C2 amended: a login submission logs an anonymous session in if and only if the
\* submitted username and password, each with its leading and trailing whitespace
\* removed (a missing field counting as empty), equal the configured pair.
C2_StrippedMatchOnly ==
    [][\A c \in Credentials :
          (~session.logged_in /\ LoginPost(c[1], c[2])) =>
              (session'.logged_in <=>
                  /\ Strip(FormGet(c[1], <<>>)) = ADMIN_USER
                  /\ Strip(FormGet(c[2], <<>>)) = ADMIN_PASS)]_vars

\* a login has succeeded and a later one, with the session logged out again, has failed
C2_Witness ==
    /\ ~session.logged_in
    /\ resp.code = 200
    /\ "danger" \in resp.flashed
    /\ "info" \in resp.flashed

\* C3: logout in a logged-in session leaves the session with no login flag and nothing
\* but the logout message, and from then on the session stays anonymous, every request
\* other than one to /login being redirected to login, until a login submission with the
\* configured credentials.
C3_LogoutClears ==
    /\ [][(session.logged_in /\ Logout) =>
            (session' = flash(NoSession, "info") /\ resp' = redirect(url_for("login")))]_vars
    /\ [][(~session.logged_in /\ session'.logged_in) =>
            \E c \in Credentials : credentials_ok(c[1], c[2]) /\ LoginPost(c[1], c[2])]_vars
    /\ [][(~session.logged_in /\ ~LoginStep) =>
            (RedirectedToLogin(resp') /\ ~session'.logged_in)]_vars

\* after a logout, a request for the dashboard was redirected
C3_Witness ==
    /\ ~session.logged_in
    /\ session.flashes = {"info"}
    /\ RedirectedToLogin(resp)
    /\ resp.next = url_for("dashboard")
    /\ employees # <<>>

C5_DeleteCascades ==
    [][\A e \in EmpIds :
          (session.logged_in /\ e \in DOMAIN employees /\ EmployeeDelete(e)) =>
              /\ DOMAIN employees' = DOMAIN employees \ {e}
              /\ \A o \in DOMAIN employees' : employees'[o] = employees[o]
              /\ \A f \in FilesOf(employee_files, e) :
                    \A o \in EmpIds : ~FileFound(employee_files', o, f)
              /\ \A f \in DOMAIN employee_files \ FilesOf(employee_files, e) :
                    f \in DOMAIN employee_files' /\ employee_files'[f] = employee_files[f]]_vars

\* an Employee that had an attachment was deleted and another Employee keeps its own
C5_Witness ==
    /\ session.logged_in
    /\ resp = redirect(url_for("dashboard"))
    /\ session.flashes = {"info"}
    /\ \E e \in EmpIds \ DOMAIN employees : EmpDir(e) \in fs_dirs
    /\ \E o \in DOMAIN employees : FilesOf(employee_files, o) # {}

\* C6: every EmployeeFile row refers to an Employee row that is stored.
C6_FilesHaveEmployee ==
    \A f \in DOMAIN employee_files : employee_files[f].employee_id \in DOMAIN employees

\* EmployeeFile rows are stored after an Employee that had attachments was deleted
C6_Witness ==
    /\ employee_files # <<>>
    /\ \E e \in created_ids \ DOMAIN employees : EmpDir(e) \in fs_dirs

\* C7: every stored Employee has a non-empty name.
C7_NameNeverEmpty ==
    \A e \in DOMAIN employees : employees[e].name # <<>>

\* C8 as stated: the id of a newly stored Employee is the id of no Employee created
\* before it, stored or deleted.
C8_IdNeverReused ==
    [][\A e \in DOMAIN employees' \ DOMAIN employees : e \notin created_ids]_vars

\* C8 amended: a create that commits adds one Employee row under an id that no stored
\* Employee has and leaves every stored Employee row as it was (the id of a deleted
\* Employee can be given again).
C8_IdFreshAmongStored ==
    [][(/\ session.logged_in
        /\ resp' = redirect(url_for("dashboard"))
        /\ \E form \in Forms : EmployeeNewPost(form)) =>
            /\ \E e \in EmpIds \ DOMAIN employees : DOMAIN employees' = DOMAIN employees \cup {e}
            /\ \A o \in DOMAIN employees : employees'[o] = employees[o]]_vars

\* a create has committed next to an Employee that was already stored
C8_Witness ==
    /\ session.logged_in
    /\ resp = redirect(url_for("dashboard"))
    /\ "success" \in session.flashes
    /\ DOMAIN employees = {1, 2}
    /\ employees[1].name # employees[2].name
    /\ employees[1].name = <<>>

\* C9: calls of save_file made one after the other overwrite no file; two calls with the
\* same original filename and subdirectory return different paths, and each path is then
\* served with the content of its own upload.
C9_NoOverwriteSequential ==
    /\ [][\A r \in DOMAIN fs_files : r \in DOMAIN fs_files' /\ fs_files'[r] = fs_files[r]]_vars
    /\ [](\A p, o \in Calls :
            (/\ p # o
             /\ up_pc[p] = "done" /\ up_pc[o] = "done"
             /\ up_dest[p] # None /\ up_dest[o] # None
             /\ up_file[p].filename = up_file[o].filename
             /\ up_file[p].subdir = up_file[o].subdir) =>
                /\ up_dest[p] # up_dest[o]
                /\ serve_response(up_dest[p]).code = 200
                /\ serve_response(up_dest[p]).body.content = up_file[p].content)

\* two calls with the same filename and subdirectory have returned, with different contents
C9_Witness ==
    /\ up_pc[1] = "done" /\ up_pc[2] = "done"
    /\ up_file[1].filename = PdfA /\ up_file[2].filename = PdfA
    /\ up_file[1].subdir = CvDir /\ up_file[2].subdir = CvDir
    /\ up_file[1].content # up_file[2].content
    /\ up_dest[1] # up_dest[2]

\* C10: two concurrent calls of save_file with the same original filename and the same
\* subdirectory never write to the same destination path.
C10_RaceNeverSameDest ==
    \A p, o \in Calls :
        (/\ p # o
         /\ up_pc[p] \in {"save", "done"} /\ up_pc[o] \in {"save", "done"}
         /\ up_dest[p] # None /\ up_dest[o] # None
         /\ up_file[p].filename = up_file[o].filename
         /\ up_file[p].subdir = up_file[o].subdir) =>
            up_dest[p] # up_dest[o]

\* <stem>_<k><ext> for a sanitized file name: the counter goes before the last dot that
\* has characters on both sides
NameWithCounter(name, k) ==
    LET d == RFind(name, ".")
    IN  IF 1 < d /\ d < Len(name)
        THEN SubSeq(name, 1, d - 1) \o <<"_">> \o Decimal(k) \o SubSeq(name, d, Len(name))
        ELSE name \o <<"_">> \o Decimal(k)

\* something is stored under rel
Taken(rel) == rel \in DOMAIN fs_files \/ rel \in fs_dirs

\* C11: a call of save_file for the sanitized name <stem><ext> writes to that name when
\* nothing is stored under it, and otherwise to <stem>_<k><ext> for the lowest k >= 1
\* under which nothing is stored; the destination depends on the contents of the
\* subdirectory only.
C11_LowestFreeName ==
    [][\A p \in Calls :
          (up_pc[p] = "save" /\ up_pc'[p] = "done") =>
              LET name   == secure_filename(up_file[p].filename)
                  subdir == up_file[p].subdir
              IN  /\ up_dest[p] \notin DOMAIN fs_files
                  /\ DOMAIN fs_files' = DOMAIN fs_files \cup {up_dest[p]}
                  /\ IF ~Taken(RelPath(subdir, name))
                     THEN up_dest[p] = RelPath(subdir, name)
                     ELSE \E k \in 1..(Cardinality(DOMAIN fs_files) + 1) :
                            /\ up_dest[p] = RelPath(subdir, NameWithCounter(name, k))
                            /\ \A j \in 1..(k - 1) :
                                  Taken(RelPath(subdir, NameWithCounter(name, j)))]_vars

\* a.pdf was stored as a_2.pdf next to a.pdf and a_1.pdf, and then again as a_3.pdf
C11_Witness ==
    /\ up_pc[1] = "done" /\ up_pc[2] = "done"
    /\ up_file[1].filename = PdfA /\ up_file[2].filename = PdfA
    /\ up_dest[1] = RelPath(CvDir, <<"a","_","2",".","p","d","f">>)
    /\ up_dest[2] = RelPath(CvDir, <<"a","_","3",".","p","d","f">>)
    /\ RelPath(CvDir, PdfA1) \in DOMAIN fs_files

\* the filename ends with a dot followed by an extension of the allow-list, in any case
EndsWithAllowed(filename) ==
    \E ext \in ALLOWED_EXTENSIONS :
        /\ Len(filename) > Len(ext)
        /\ Lower(SubSeq(filename, Len(filename) - Len(ext), Len(filename))) = <<".">> \o ext

\* C12: a call of save_file for an upload whose filename has no extension, or an
\* extension that is not in the allow-list when compared without regard to case, raises
\* ValueError; the call writes no file and creates no directory.
C12_RejectedWritesNothing ==
    /\ [][\A p \in Calls :
            (/\ up_pc[p] = "idle" /\ up_pc'[p] # "idle"
             /\ up_file'[p].filename # <<>>
             /\ ~EndsWithAllowed(up_file'[p].filename)) =>
                (up_pc'[p] = "raised" /\ fs_files' = fs_files /\ fs_dirs' = fs_dirs)]_vars
    /\ [][\A p \in Calls : up_pc[p] = "raised" => up_pc'[p] = "raised"]_vars
    /\ [][\A p \in Calls :
            (up_pc[p] = "idle" /\ up_pc'[p] = "check") =>
                EndsWithAllowed(up_file'[p].filename)]_vars

\* a name without an extension and a name with a foreign extension were both rejected
\* on a folder that stays empty
C12_Witness ==
    /\ up_pc[1] = "raised" /\ up_pc[2] = "raised"
    /\ up_file[1].filename = NoExt
    /\ up_file[2].filename = ExeA
    /\ fs_files = <<>>
    /\ fs_dirs = {}

\* C13 as stated: a fetch by a logged-in session is answered 403 for every path that
\* resolves outside the upload folder, whether or not a file is there; for a path that
\* resolves inside it is answered 404 if and only if no file is there; content is
\* returned from inside the folder only.
C13_NotFoundIffNoFile ==
    [][\A r \in ServePaths :
          (session.logged_in /\ ServeFile(r)) =>
              LET target == Resolve(Split(r, "/"), UploadsAbs)
                  inside == IsPrefix(UploadsAbs, target)
              IN  /\ ~inside => resp' = abort(403)
                  /\ inside => (resp' = abort(404) <=> ~IsFile(target))
                  /\ resp'.code = 200 => inside]_vars

\* C13 amended: a fetch by a logged-in session is answered 403 for every path that
\* resolves outside the upload folder, whether or not a file is there; for a path that
\* resolves inside it is answered 404 whenever no file is there, and otherwise either
\* with the content of the file at the resolved place or with 404 (a path that leaves
\* the folder through ".." and comes back, or that passes through a directory that
\* does not exist, is answered 404 although the file is there); content is returned
\* from inside the folder only.
C13_ForbiddenBeforeNotFound ==
    [][\A r \in ServePaths :
          (session.logged_in /\ ServeFile(r)) =>
              LET target == Resolve(Split(r, "/"), UploadsAbs)
                  inside == IsPrefix(UploadsAbs, target)
              IN  /\ ~inside => resp' = abort(403)
                  /\ (inside /\ ~IsFile(target)) => resp' = abort(404)
                  /\ inside => resp'.code \in {200, 404}
                  /\ resp'.code = 200 =>
                        /\ inside /\ IsFile(target)
                        /\ resp'.body.content = fs_files[RelOf(target)]
                  /\ UNCHANGED storeVars]_vars

\* a fetch was refused with 403 while files are stored in the folder
C13_Witness ==
    /\ session.logged_in
    /\ resp = abort(403)
    /\ RelPath(EmpDir(1), PdfA) \in DOMAIN fs_files

\* the attachments of the batch that are uploads with an extension outside the allow-list
Disallowed(attachments) ==
    {i \in DOMAIN attachments :
        attachments[i].filename # <<>> /\ ~EndsWithAllowed(attachments[i].filename)}

\* the files the step has added to the upload folder
NewFiles == DOMAIN fs_files' \ DOMAIN fs_files

\* the forms whose attachments include a disallowed upload
BadForms == {form \in Forms : Disallowed(form.attachments) # {}}

\* the response of employee_new to a ValueError: the form again, with the error message
CreateFailed(r) == r.code = 200 /\ "danger" \in r.flashed /\ r.body = NoBody

\* C14: a create whose attachments include an upload with a disallowed extension
\* re-renders the form with the error message; the new Employee row is stored all the
\* same, no EmployeeFile row is added, and no file is stored for the disallowed
\* attachment (only attachments with an allowed extension reach the upload folder).
C14_EmployeeKeptOnBadAttachment ==
    /\ [][(session.logged_in /\ CreateFailed(resp')) =>
            /\ \E form \in BadForms : EmployeeNewPost(form)
            /\ \E e \in EmpIds \ DOMAIN employees :
                  /\ DOMAIN employees' = DOMAIN employees \cup {e}
                  /\ employees'[e].name = <<"A","d">>
            /\ \A o \in DOMAIN employees : employees'[o] = employees[o]
            /\ employee_files' = employee_files
            /\ Cardinality(NewFiles) < MaxAtt
            /\ \A r \in NewFiles : EndsWithAllowed(r)]_vars
    /\ [][(/\ session.logged_in
           /\ ~CreateFailed(resp')
           /\ DOMAIN employees' # DOMAIN employees
           /\ DOMAIN employees \subseteq DOMAIN employees') =>
              \A form \in BadForms : ~EmployeeNewPost(form)]_vars

\* the only create so far had a.pdf and then a.exe attached: the Employee is stored,
\* a.pdf is in the folder, and no EmployeeFile row exists
C14_Witness ==
    /\ session.logged_in
    /\ resp.code = 200 /\ "danger" \in resp.flashed
    /\ created_ids = {1} /\ DOMAIN employees = {1}
    /\ employee_files = <<>>
    /\ DOMAIN fs_files = {RelPath(EmpDir(1), PdfA)}

\* the response of employee_edit to a ValueError: the form of the Employee again, with
\* the error message
EditFailed(r) == r.code = 200 /\ "danger" \in r.flashed /\ r.body # NoBody

\* the forms whose CV has a disallowed extension, and those whose CV passes and whose
\* attachments include a disallowed upload
CvBadForms ==
    {form \in UnitForms : form.cv_file.filename # <<>> /\ ~EndsWithAllowed(form.cv_file.filename)}
AttBadForms == {form \in UnitForms \ CvBadForms : Disallowed(form.attachments) # {}}

\* the form is posted to employee_new, or to employee_edit for a stored Employee
Submitted(form) ==
    \/ EmployeeNewPost(form)
    \/ \E e \in DOMAIN employees : EmployeeEditPost(e, form)

\* C15 as stated: a create or an update that ends with the error of a disallowed
\* extension has changed nothing: the Employee rows, the EmployeeFile rows and the
\* files of the upload folder are as before.
C15_FailureMutatesNothing ==
    [][(session.logged_in /\ (CreateFailed(resp') \/ EditFailed(resp'))) =>
          UNCHANGED storeVars]_vars

\* C15 amended: a create or an update that ends with the error of a disallowed
\* extension has added, changed and removed no EmployeeFile row, has changed and
\* removed no Employee row that was stored, and has changed and removed no stored file.
\* When the disallowed file is the CV nothing at all has changed. When it is an
\* attachment, the files saved before it in the request (the CV, earlier attachments)
\* stay in the upload folder, an update has changed no Employee row, and a create has
\* stored its new Employee row.
C15_FailureKeepsWhatWasStored ==
    /\ [][(session.logged_in /\ (CreateFailed(resp') \/ EditFailed(resp'))) =>
            /\ employee_files' = employee_files
            /\ \A o \in DOMAIN employees : o \in DOMAIN employees' /\ employees'[o] = employees[o]
            /\ \A r \in DOMAIN fs_files : r \in DOMAIN fs_files' /\ fs_files'[r] = fs_files[r]
            /\ \A r \in NewFiles : EndsWithAllowed(r)
            /\ EditFailed(resp') => employees' = employees]_vars
    /\ [][(/\ session.logged_in
           /\ CreateFailed(resp') \/ EditFailed(resp')
           /\ storeVars' # storeVars) =>
              \A form \in CvBadForms : ~Submitted(form)]_vars
    /\ [][(/\ session.logged_in
           /\ CreateFailed(resp')
           /\ employees' = employees) =>
              \A form \in AttBadForms : ~EmployeeNewPost(form)]_vars
    /\ [][(/\ session.logged_in
           /\ resp'.code = 302
           /\ "success" \in session'.flashes) =>
              \A form \in CvBadForms \cup AttBadForms : ~Submitted(form)]_vars

\* a create with a CV, an allowed attachment and then a disallowed one has failed: the
\* Employee is stored with its CV, both files are in the folder, no EmployeeFile row is
C15_Witness ==
    /\ session.logged_in
    /\ CreateFailed(resp)
    /\ DOMAIN employees = {1}
    /\ employees[1].cv_filename = RelPath(CvDir, PdfA)
    /\ DOMAIN fs_files = {RelPath(CvDir, PdfA), RelPath(EmpDir(1), PdfA)}
    /\ employee_files = <<>>

\* the files the step has added to the upload folder for attachments
NewAttachmentFiles == {r \in NewFiles : ~IsPrefix(CvDir, r)}

\* the EmployeeFile rows the step has added
NewRows == DOMAIN employee_files' \ DOMAIN employee_files

\* every attachment file the step has saved has its EmployeeFile row
AllRowsStored ==
    /\ Cardinality(NewRows) = Cardinality(NewAttachmentFiles)
    /\ \A r \in NewAttachmentFiles : \E f \in NewRows : employee_files'[f].filename = r

\* C16 as stated: a create or an update that fails at a later step has stored either
\* every Employee and EmployeeFile write it had made up to then or none of them.
C16_AllOrNothing ==
    [][(session.logged_in /\ (CreateFailed(resp') \/ EditFailed(resp'))) =>
          \/ employees' = employees /\ employee_files' = employee_files
          \/ employees' # employees /\ AllRowsStored]_vars

\* C16 amended: update, delete and delete_attachment each store all of their Employee
\* and EmployeeFile writes or none. Create stores in two units: the Employee row first,
\* then the EmployeeFile rows of its attachments, all of them or none; a create that
\* fails at an attachment keeps the Employee row and none of the EmployeeFile rows.
C16_CreateCommitsTwice ==
    /\ [][(session.logged_in /\ EditFailed(resp')) =>
            (employees' = employees /\ employee_files' = employee_files)]_vars
    /\ [][(session.logged_in /\ CreateFailed(resp')) =>
            /\ employee_files' = employee_files
            /\ \/ employees' = employees /\ NewFiles = {}
               \/ \E e \in EmpIds \ DOMAIN employees :
                     DOMAIN employees' = DOMAIN employees \cup {e}]_vars
    /\ [][(/\ session.logged_in
           /\ resp'.code = 302
           /\ resp'.location.route \in {"dashboard", "employee_view"}
           /\ "success" \in session'.flashes
           /\ NewFiles # {} \/ employees' # employees) =>
              /\ AllRowsStored
              /\ \A f \in NewRows : employee_files'[f].employee_id \in DOMAIN employees']_vars
    /\ [][(session.logged_in /\ resp'.code = 404) => UNCHANGED storeVars]_vars

\* next to an Employee that is stored, a create has failed at its second attachment:
\* its Employee is stored with its CV, its first attachment is in the folder and has no
\* EmployeeFile row
C16_Witness ==
    /\ session.logged_in
    /\ CreateFailed(resp)
    /\ DOMAIN employees = {1, 2}
    /\ employees[2].cv_filename = RelPath(CvDir, PdfA)
    /\ RelPath(EmpDir(2), PdfA) \in DOMAIN fs_files
    /\ FilesOf(employee_files, 2) = {}

C18_UpdateUnsetsBadDate ==
    [][\A e \in EmpIds, form \in DateForms :
          (/\ session.logged_in
           /\ e \in DOMAIN employees
           /\ form.hire_date \in BadDates
           /\ EmployeeEditPost(e, form)) =>
              /\ resp' = redirect(Path("employee_view", e, 0, <<>>))
              /\ employees'[e].hire_date = NoDate]_vars

\* needle is a substring of hay when case is ignored
Contains(hay, needle) ==
    \E i \in 0..(Len(hay) - Len(needle)) :
        SubSeq(Lower(hay), i + 1, i + Len(needle)) = Lower(needle)

\* the list is in descending order of created_at
DescendingCreatedAt(o) ==
    \A i, j \in DOMAIN o : i < j => employees[o[i]].created_at >= employees[o[j]].created_at

\* C19: a search with the texts q and specialty lists exactly the stored Employees for
\* which q is absent or a substring, case ignored, of the name or of the qualification,
\* and specialty is absent or a substring, case ignored, of the specialty; each of them
\* once, in descending order of created_at; the search changes nothing that is stored.
C19_ExactSubstringMatches ==
    [][\A qp \in QueryPairs :
          (session.logged_in /\ Dashboard(qp[1], qp[2])) =>
              LET q  == Strip(FormGet(qp[1], <<>>))
                  sp == Strip(FormGet(qp[2], <<>>))
                  o  == resp'.body.emps
              IN  /\ Range(o) =
                        {e \in DOMAIN employees :
                            /\ \/ q = <<>>
                               \/ Contains(employees[e].name, q)
                               \/ Contains(employees[e].qualification, q)
                            /\ sp = <<>> \/ Contains(employees[e].specialty, sp)}
                  /\ Len(o) = Cardinality(Range(o))
                  /\ DescendingCreatedAt(o)
                  /\ UNCHANGED storeVars]_vars

\* C20: a search lists the Employees in descending order of created_at, and Employees
\* with the same created_at in the order in which they were inserted, so that the list
\* is a function of the stored state and the filters.
C20_TiesInInsertionOrder ==
    [][\A qp \in QueryPairs :
          (session.logged_in /\ Dashboard(qp[1], qp[2])) =>
              LET o == resp'.body.emps
              IN  \A i, j \in DOMAIN o :
                      i < j =>
                          \/ employees[o[i]].created_at > employees[o[j]].created_at
                          \/ /\ employees[o[i]].created_at = employees[o[j]].created_at
                             /\ o[i] < o[j]]_vars

\* the EmployeeFile rows with the id file_id that belong to Employee emp_id
RowsOfPair(emp_id, file_id) ==
    {f \in DOMAIN employee_files : f = file_id /\ employee_files[f].employee_id = emp_id}

\* C21: delete_attachment for the pair (employee id, file id) removes the one
\* EmployeeFile row with that id that belongs to that Employee and leaves every other
\* EmployeeFile row and every Employee row as it was; when no row matches the pair (an
\* unknown file id, or the file of another Employee) it answers 404 and changes nothing.
C21_DeletesOnlyThePair ==
    [][\A e \in EmpIds, f \in FileIds :
          (session.logged_in /\ DeleteFile(e, f)) =>
              IF RowsOfPair(e, f) # {}
              THEN /\ DOMAIN employee_files' = DOMAIN employee_files \ {f}
                   /\ \A o \in DOMAIN employee_files' : employee_files'[o] = employee_files[o]
                   /\ employees' = employees
                   /\ resp' = redirect(Path("employee_edit", e, 0, <<>>))
              ELSE /\ resp' = abort(404)
                   /\ UNCHANGED storeVars]_vars

\* one of the two attachments of an Employee was deleted and the other row is kept
C21_Witness ==
    /\ session.logged_in
    /\ resp.code = 302 /\ resp.location.route = "employee_edit"
    /\ Cardinality(DOMAIN employee_files) = 1
    /\ \A f \in DOMAIN employee_files : employee_files[f].employee_id = resp.location.emp_id
    /\ Cardinality(DOMAIN fs_files) = 2

\* the response of employee_edit to an update that was committed
EditDone(r) == r.code = 302 /\ r.location.route = "employee_view"

\* C22: an update that succeeds and uploads n attachments leaves every EmployeeFile row
\* that was stored as it was and adds n EmployeeFile rows, all of them for the updated
\* Employee; the update removes and replaces no EmployeeFile row.
C22_UpdateAppendsRows ==
    /\ [][(session.logged_in /\ EditDone(resp')) =>
            \A f \in DOMAIN employee_files :
                f \in DOMAIN employee_files' /\ employee_files'[f] = employee_files[f]]_vars
    /\ [][(session.logged_in /\ EditDone(resp')) =>
            /\ \A f \in NewRows : employee_files'[f].employee_id = resp'.location.emp_id
            /\ \A form \in FileForms :
                  EmployeeEditPost(resp'.location.emp_id, form) =>
                      Cardinality(NewRows) = Cardinality(Uploaded(form.attachments))]_vars

\* an update has added a second attachment row to an Employee that had one
C22_Witness ==
    /\ session.logged_in
    /\ EditDone(resp)
    /\ DOMAIN employees = {1}
    /\ employees[1].updated_at = employees[1].created_at
    /\ DOMAIN employee_files = {1, 2}
    /\ employee_files[1].filename # employee_files[2].filename
    /\ DOMAIN fs_files = {employee_files[1].filename, employee_files[2].filename}

\* C24: every cv_filename that is set names a file that is stored under the cv
\* directory of the upload folder, and the filename of every EmployeeFile row names a
\* file that is stored under the directory of the Employee the row belongs to.
C24_StoredNamesExist ==
    /\ \A e \in DOMAIN employees :
          employees[e].cv_filename # None =>
              /\ employees[e].cv_filename \in DOMAIN fs_files
              /\ IsPrefix(CvDir \o <<"/">>, employees[e].cv_filename)
    /\ \A f \in DOMAIN employee_files :
          /\ employee_files[f].filename \in DOMAIN fs_files
          /\ IsPrefix(EmpDir(employee_files[f].employee_id) \o <<"/">>, employee_files[f].filename)

\* an Employee has a CV and an attachment row, and both files are in the folder
C24_Witness ==
    /\ \E e \in DOMAIN employees :
          /\ employees[e].cv_filename # None
          /\ FilesOf(employee_files, e) # {}
    /\ Cardinality(DOMAIN fs_files) = 2

\* the response of delete_file for a row that was deleted
FileDeleted(r) == r.code = 302 /\ r.location.route = "employee_edit"

\* C23: when the clock has advanced since updated_at was stamped, every committed update
\* of an Employee and every delete_attachment on it leaves updated_at later than it was,
\* and created_at as it was.
C23_EveryMutationRefreshes ==
    [][\A e \in DOMAIN employees :
          (/\ session.logged_in
           /\ now > employees[e].updated_at
           /\ EditDone(resp') \/ FileDeleted(resp')
           /\ resp'.location.emp_id = e) =>
              /\ employees'[e].updated_at > employees[e].updated_at
              /\ employees'[e].created_at = employees[e].created_at]_vars

\* C25: when no request is in flight, every EmployeeFile row belongs to an Employee
\* that is stored, also after a delete that ran between the two commits of a create of
\* that Employee or during an update of it that adds attachments.
C25_NoRowOutlivesEmployee ==
    inflight.kind = "none" =>
        \A f \in DOMAIN employee_files : \E e \in DOMAIN employees :
            employee_files[f].employee_id = e
====
